---- MODULE Spec2Model ----
(***************************************************************************)
(* distinctUntilChangedImmutable: an operator on a value stream that      *)
(* forwards a value only when its key differs from the retained clone of  *)
(* the key of the last forwarded value.                                    *)
(*                                                                         *)
(* The model has three layers:                                             *)
(*   - a heap of JavaScript objects (identity, own properties), so that    *)
(*     aliasing and in-place mutation are visible;                         *)
(*   - the clone engine copy()/handleCopy() of deep-copy.ts, computed on   *)
(*     that heap the way the code computes it;                             *)
(*   - DistinctUntilChangedSubscriber: its fields, _next, and the          *)
(*     notifications it inherits from the stream runtime.                  *)
(***************************************************************************)
EXTENDS Integers, Sequences, FiniteSets, TLC

\* ------------------------------------------------------------------ bounds

\* upstream next() calls in one behaviour of Spec
MaxDeliver == 3
\* in-place mutations of upstream objects in one behaviour of Spec
MaxMutate == 1
\* the source of SpecNum emits 1..SeqLen (the tests' 1,2,3,4,5,6)
SeqLen == 6

\* ------------------------------------------------------------------ values

\* A JavaScript value: undefined, a primitive, or a reference to a heap object.
Undefined == [t |-> "undefined", v |-> 0]
Prim(n) == [t |-> "prim", v |-> n]
Ref(a) == [t |-> "ref", v |-> a]

\* Own enumerable property names in for..in order (array indices 0 and 1 for
\* an array).
Keys == <<"k0", "k1">>
KeySet == {Keys[i] : i \in 1..Len(Keys)}
NoProps == [k \in KeySet |-> Undefined]

\* A heap cell: an object with what it is and its own properties; a property
\* that is Undefined is absent. What an object is: "Object" an object literal,
\* "Thenable" an object literal with a method then, "Array", "Map" (one entry:
\* k0 its key, k1 its value), "Set" (k0 and k1 its elements), "Function",
\* "Promise", "Error", "WeakMap", "WeakSet".
Free == [kind |-> "free", f |-> NoProps]
Cell(kind, p0, p1) == [kind |-> kind, f |-> [k \in KeySet |-> IF k = "k0" THEN p0 ELSE p1]]

\* The objects the upstream holds: 1 and 2 are structurally equal nested
\* objects built separately, like the tests' a and b ({1: {john: ['john']}}),
\* but with the nested array under two properties: 1 references its nested
\* array 3 twice, 2 references its nested array 4 twice. 5 is a third object
\* of the same content, built from the two arrays the others hold.
UpstreamObjects ==
  << Cell("Object", Ref(3), Ref(3)),
     Cell("Object", Ref(4), Ref(4)),
     Cell("Array", Prim(1), Undefined),
     Cell("Array", Prim(1), Undefined),
     Cell("Object", Ref(4), Ref(3)) >>

ExtAddr == DOMAIN UpstreamObjects
\* the objects the source delivers; the others are nested in them
Delivered == {1, 2}
\* room for the upstream objects, the retained clone and the clone being made
Addr == 1..(3 * Cardinality(ExtAddr))

\* objects reachable from the roots in frontier
RECURSIVE Reach(_, _, _)
Reach(h, frontier, seen) ==
  IF frontier = {} THEN seen
  ELSE LET a == CHOOSE b \in frontier : TRUE
           kids == {h[a].f[k].v : k \in {j \in KeySet : h[a].f[j].t = "ref"}}
       IN Reach(h, (frontier \cup kids) \ (seen \cup {a}), seen \cup {a})

Reachable(h, v) == IF v.t = "ref" THEN Reach(h, {v.v}, {}) ELSE {}

\* What the runtime's collector does: objects no root reaches are gone.
Collect(h, roots) ==
  LET live == Reach(h, roots, {})
  IN [a \in Addr |-> IF a \in live THEN h[a] ELSE Free]

\* ------------------------------------------------------------ clone engine

\* a cache kept from one call to the next: it holds the objects the upstream
\* handed to earlier calls
createCache_Kept == ExtAddr

\* createCache(): a new, empty set of visited objects
createCache == {}

\* whether the runtime has room for one more object
hasRoom(h) == \E a \in Addr : h[a] = Free
\* what a computation gives that did not end before the runtime ran out of room
Exhausted == [t |-> "exhausted", v |-> 0]

\* The address of the object a constructor call creates.
NewAddr(h) == CHOOSE a \in Addr : h[a] = Free /\ \A b \in Addr : b < a => h[b] # Free

\* getCleanClone(object): an empty object with the constructor of object
getCleanClone(h, object) ==
  [h EXCEPT ![NewAddr(h)] = [kind |-> h[object].kind, f |-> NoProps]]

RECURSIVE handleCopy(_, _, _)
RECURSIVE copyProperties(_, _, _, _, _)

\* The loop `for (const key in object) clone[key] = handleCopy(object[key], cache)`
\* from the i-th key on; the result is the heap, the cache and the clone.
copyProperties(h, cache, object, clone, i) ==
  IF i > Len(Keys) THEN [heap |-> h, cache |-> cache, value |-> Ref(clone)]
  ELSE IF h[object].f[Keys[i]] = Undefined
       THEN copyProperties(h, cache, object, clone, i + 1)
       ELSE LET r == handleCopy(h, cache, h[object].f[Keys[i]])
            IN copyProperties([r.heap EXCEPT ![clone].f[Keys[i]] = r.value],
                              r.cache, object, clone, i + 1)

\* getObjectCloneLoose(object, realm, handleCopy, cache)
getObjectCloneLoose(h, cache, object) ==
  copyProperties(getCleanClone(h, object), cache, object, NewAddr(h), 1)

\* the array branch of handleCopy: new constructor(), then every index
copyArray(h, cache, object) ==
  copyProperties(getCleanClone(h, object), cache, object, NewAddr(h), 1)

\* the map branch of handleCopy: new constructor(), then
\* clone.set(key, handleCopy(value, cache)) for the entry
copyMap(h, cache, object) ==
  LET clone == NewAddr(h)
      r == handleCopy(getCleanClone(h, object), cache, h[object].f["k1"])
  IN [heap |-> [r.heap EXCEPT ![clone].f = [k0 |-> h[object].f["k0"], k1 |-> r.value]],
      cache |-> r.cache,
      value |-> Ref(clone)]

\* the set branch of handleCopy: new constructor(), then
\* clone.add(handleCopy(value, cache)) for every element
copySet(h, cache, object) ==
  copyProperties(getCleanClone(h, object), cache, object, NewAddr(h), 1)

\* typeof objectInHandle === 'object', for a value that is not null
isObject(h, v) == v.t = "ref" /\ h[v.v].kind # "Function"
\* constructor === Object
isPlain(kind) == kind \in {"Object", "Thenable"}
\* typeof objectInHandle.then === 'function'
hasThen(kind) == kind \in {"Promise", "Thenable"}
\* promise-like, an error, a WeakMap or a WeakSet
cannotBeCloned(kind) == hasThen(kind) \/ kind \in {"Error", "WeakMap", "WeakSet"}

\* a cache that forgets what it is given
cacheAdd_Forgets(cache, object) == cache

\* cache.add(objectInHandle)
cacheAdd(cache, object) == cache \cup {object}

\* handleCopy(objectInHandle, cache): a value that is no object, or an object
\* the cache has, is returned as it is; otherwise the branches in the order of
\* the code: object literals, arrays, maps, sets, what cannot be cloned, and
\* objects of any other constructor.
handleCopy(h, cache, objectInHandle) ==
  IF ~isObject(h, objectInHandle) \/ objectInHandle.v \in cache
  THEN [heap |-> h, cache |-> cache, value |-> objectInHandle]
  ELSE IF ~hasRoom(h)
  THEN [heap |-> h, cache |-> cache, value |-> Exhausted]
  ELSE LET object == objectInHandle.v
           kind == h[object].kind
       IN IF isPlain(kind) THEN getObjectCloneLoose(h, cacheAdd(cache, object), object)
          ELSE IF kind = "Array" THEN copyArray(h, cacheAdd(cache, object), object)
          ELSE IF kind = "Map" THEN copyMap(h, cacheAdd(cache, object), object)
          ELSE IF kind = "Set" THEN copySet(h, cacheAdd(cache, object), object)
          ELSE IF cannotBeCloned(kind)
          THEN [heap |-> h, cache |-> cache, value |-> objectInHandle]
          ELSE getObjectCloneLoose(h, cacheAdd(cache, object), object)

\* copy(object): handleCopy(object, createCache())
copy(h, object) == handleCopy(h, createCache, object)

\* --------------------------------------------------------- equality engine

\* deepEqual(a, b): primitives by value, objects of the same constructor with
\* the same own keys and recursively equal values.
RECURSIVE deepEqual(_, _, _)
deepEqual(h, a, b) ==
  IF a.t # "ref" \/ b.t # "ref" THEN a = b
  ELSE /\ h[a.v].kind = h[b.v].kind
       /\ \A k \in KeySet : deepEqual(h, h[a.v].f[k], h[b.v].f[k])

\* The content of a value: the tree of constructors and primitives under it,
\* whatever the identities of the objects (used to state the claims); a
\* reference back to an object on the path from the root is given by how far
\* up the path the object is.
RECURSIVE SnapshotFrom(_, _, _)
SnapshotFrom(h, v, path) ==
  IF v.t # "ref" THEN v
  ELSE IF \E i \in 1..Len(path) : path[i] = v.v
  THEN [t |-> "back", v |-> CHOOSE i \in 1..Len(path) : path[i] = v.v]
  ELSE [kind |-> h[v.v].kind,
        props |-> [k \in KeySet |-> SnapshotFrom(h, h[v.v].f[k], <<v.v>> \o path)]]

Snapshot(h, v) == SnapshotFrom(h, v, <<>>)

NoSnapshot == [t |-> "none", v |-> 0]

\* ------------------------------------------------------------- the filter

VARIABLES
  heap,         \* the objects that exist: the upstream's, and the clones
  compare,      \* this.compare: which comparator the subscriber was built with
  keySelector,  \* this.keySelector: which key-selector, "none" when absent
  key,          \* this.key
  hasKey,       \* this.hasKey
  isStopped,    \* this.isStopped (Subscriber)
  closed,       \* this.closed: unsubscribed, the subscription to the source released
  destination,  \* the downstream subscriber
  out,          \* the notifications the downstream consumer has received
  sourceDone,   \* the source has sent its completion or its error
  last,         \* what the last step did
  accepted,     \* the content of the key of the last accepted value, when accepted
  judged,       \* the values judged distinct so far, in order
  calls,        \* how often _next, the key-selector, the comparator, copy ran
  terminal,     \* the first terminal event of the subscription
  dirty,        \* an upstream object was mutated since the last accepted value
  shown,        \* the content of the last value _next handled, when handled
  runs,         \* how many values _next handled differed in content from the one before
  nDeliver,     \* upstream next() calls so far
  nMutate       \* mutations so far

vars == <<heap, compare, keySelector, key, hasKey, isStopped, closed, destination,
          out, sourceDone, last, accepted, judged, calls, terminal, dirty,
          shown, runs, nDeliver, nMutate>>

\* notifications
N(v) == [n |-> "next", v |-> v]
E == [n |-> "error", v |-> Undefined]
C == [n |-> "complete", v |-> Undefined]

\* the value on which the tests' throwing comparator and key-selector raise
ThrowOn == Prim(2)

\* a subscriber that ignores its key-selector
applyKeySelector_Ignored(sel, value) == [threw |-> FALSE, key |-> value]

\* keySelector ? keySelector(value) : value, with the selectors of the tests:
\* x => x % 2, and one that throws on one value and is the identity otherwise.
applyKeySelector(sel, value) ==
  CASE sel = "none" -> [threw |-> FALSE, key |-> value]
    [] sel = "mod2" -> [threw |-> FALSE,
                        key |-> IF value.t = "prim" THEN Prim(value.v % 2) ELSE Undefined]
    [] sel = "throwsOn" -> IF value = ThrowOn THEN [threw |-> TRUE, key |-> Undefined]
                           ELSE [threw |-> FALSE, key |-> value]

\* the default comparator as the line commented out in it: return x === y
compareDefault_Strict(h, x, y) == x = y

\* DistinctUntilChangedSubscriber.compare(x, y), the default: deepEqual(x, y)
compareDefault(h, x, y) == deepEqual(h, x, y)

\* compare(x, y): the default, or the comparator given: p === q (README),
\* one that throws on one y and is x === y otherwise, constant true, constant
\* false, y % 2 === 0, y % 2 === 1 (tests).
applyCompare(cmp, h, x, y) ==
  CASE cmp = "deepEqual" -> [threw |-> FALSE, result |-> compareDefault(h, x, y)]
    [] cmp = "strictEqual" -> [threw |-> FALSE, result |-> x = y]
    [] cmp = "throwsOn" -> IF y = ThrowOn THEN [threw |-> TRUE, result |-> FALSE]
                           ELSE [threw |-> FALSE, result |-> x = y]
    [] cmp = "alwaysTrue" -> [threw |-> FALSE, result |-> TRUE]
    [] cmp = "alwaysFalse" -> [threw |-> FALSE, result |-> FALSE]
    [] cmp = "yEven" -> [threw |-> FALSE, result |-> y.t = "prim" /\ y.v % 2 = 0]
    [] cmp = "yOdd" -> [threw |-> FALSE, result |-> y.t = "prim" /\ y.v % 2 = 1]

\* the comparator called with its arguments the other way round
callCompare_Swapped(cmp, h, retained, k) == applyCompare(cmp, h, k, retained)

\* compare(this.key, key): the retained key first, the new key second
callCompare(cmp, h, retained, k) == applyCompare(cmp, h, retained, k)

\* a subscriber that calls the comparator for the first key too
mustCompare_Always(has) == TRUE

\* if (this.hasKey): whether the comparator is called for a key
mustCompare(has) == has

\* a subscriber that forwards whatever the comparator says
isDistinct_Always(result) == TRUE

\* if (!result): whether a compared value is forwarded
isDistinct(result) == ~result

\* a subscriber that retains the key itself, not a copy
retain_ByReference(h, k) == [heap |-> h, value |-> k]

\* this.key = copy(key): the heap with the clone in it and the objects nothing
\* holds any more gone, and the clone
retain(h, k) ==
  LET r == copy(h, k)
  IN [heap |-> Collect(r.heap, ExtAddr \cup (IF r.value.t = "ref" THEN {r.value.v} ELSE {})),
      value |-> r.value]

\* a subscriber that hands a value on ahead of the ones handed on before
destinationNext_Prepended(value) ==
  /\ out' = IF destination.isStopped THEN out ELSE <<N(value)>> \o out
  /\ UNCHANGED <<destination, isStopped, closed>>

\* a subscriber that completes its consumer after handing a value on
destinationNext_ThenComplete(value) ==
  /\ out' = IF destination.isStopped THEN out ELSE out \o <<N(value), C>>
  /\ UNCHANGED <<destination, isStopped, closed>>

\* destination.next(value)
destinationNext(value) ==
  /\ out' = IF destination.isStopped THEN out ELSE Append(out, N(value))
  /\ UNCHANGED <<destination, isStopped, closed>>

\* destination.error(err): a destination not yet stopped hands the error on and
\* unsubscribes, and this subscriber, which super(destination) added to its
\* destination, is unsubscribed with it.
destinationError ==
  IF destination.isStopped THEN UNCHANGED <<out, destination, isStopped, closed>>
  ELSE /\ out' = Append(out, E)
       /\ destination' = [isStopped |-> TRUE]
       /\ isStopped' = TRUE
       /\ closed' = TRUE

\* a catch block that swallows the error instead of handing it downstream
onThrow_Swallowed == UNCHANGED <<out, destination, isStopped, closed>>

\* a catch block that forwards the error without the destination ending the
\* subscription: the error is delivered, and the filter goes on
onThrow_NotTerminal ==
  /\ out' = Append(out, E)
  /\ UNCHANGED <<destination, isStopped, closed>>

\* a catch block that hands the error downstream twice
onThrow_Twice ==
  /\ out' = out \o <<E, E>>
  /\ destination' = [isStopped |-> TRUE]
  /\ isStopped' = TRUE
  /\ closed' = TRUE

\* the catch blocks of _next: return this.destination.error(err)
onThrow == destinationError

\* catch blocks without their return: _next goes on with the key it has,
\* undefined, and retains it
catchReturns_FallsThrough ==
  /\ key' = Undefined
  /\ hasKey' = TRUE
  /\ UNCHANGED <<heap, accepted, judged, dirty>>

\* the return of the catch blocks of _next: nothing after them runs
catchReturns == UNCHANGED <<heap, key, hasKey, accepted, judged, dirty>>

\* the record of a step: the operation, the value delivered, what the
\* key-selector did and the key it gave, what the comparator did, the
\* comparator's arguments, the content of its first argument, the content the
\* last accepted key had when accepted, whether the value was forwarded, what
\* copy returned, and, for a delivery made by the consumer's handler, the
\* value the handler was given
NoCall == [op |-> "none", value |-> Undefined, ks |-> "none", extracted |-> Undefined,
           cmp |-> "none", x |-> Undefined, y |-> Undefined, xSnap |-> NoSnapshot,
           expected |-> NoSnapshot, emitted |-> FALSE, copied |-> Undefined,
           during |-> Undefined]

\* _next(value)
_next(value) ==
  LET ks == applyKeySelector(keySelector, value)
      selected == IF keySelector = "none" THEN "none" ELSE IF ks.threw THEN "threw" ELSE "ok"
      compared == mustCompare(hasKey) /\ ~ks.threw
      c == IF compared THEN callCompare(compare, heap, key, ks.key)
           ELSE [threw |-> FALSE, result |-> FALSE]
      seen == [NoCall EXCEPT !.op = "next", !.value = value, !.ks = selected,
                             !.extracted = ks.key]
      seenCmp == IF compared
                 THEN [seen EXCEPT !.x = key, !.y = ks.key, !.xSnap = Snapshot(heap, key),
                                   !.expected = accepted,
                                   !.cmp = IF c.threw THEN "threw"
                                           ELSE IF c.result THEN "true" ELSE "false"]
                 ELSE seen
      content == Snapshot(heap, value)
      counted == [calls EXCEPT !.next = @ + 1,
                               !.keySelector = @ + (IF keySelector = "none" THEN 0 ELSE 1),
                               !.compare = @ + (IF compared THEN 1 ELSE 0)]
  IN /\ shown' = content
     /\ runs' = IF content = shown THEN runs ELSE runs + 1
     /\ IF ks.threw \/ c.threw
        THEN /\ onThrow
             /\ last' = seenCmp
             /\ calls' = counted
             /\ terminal' = IF terminal = "none" THEN "failure" ELSE terminal
             /\ catchReturns
        ELSE /\ hasKey' = TRUE
             /\ IF isDistinct(c.result)
                THEN LET r == retain(heap, ks.key)
                     IN /\ key' = r.value
                        /\ heap' = r.heap
                        /\ destinationNext(value)
                        /\ last' = [seenCmp EXCEPT !.emitted = TRUE, !.copied = r.value]
                        /\ calls' = [counted EXCEPT !.copy = @ + 1]
                        /\ accepted' = Snapshot(heap, ks.key)
                        /\ judged' = Append(judged, value)
                        /\ dirty' = FALSE
                ELSE /\ last' = seenCmp
                     /\ calls' = counted
                     /\ UNCHANGED <<heap, key, out, destination, isStopped, closed,
                                    accepted, judged, dirty>>
             /\ UNCHANGED terminal

\* Subscriber.next(value), as the source calls it: a stopped subscriber ignores it.
next(value) ==
  /\ nDeliver' = nDeliver + 1
  /\ UNCHANGED <<compare, keySelector, sourceDone, nMutate>>
  /\ IF isStopped
     THEN /\ last' = [NoCall EXCEPT !.op = "ignored", !.value = value]
          /\ UNCHANGED <<heap, key, hasKey, isStopped, closed, destination, out,
                         accepted, judged, calls, terminal, dirty, shown, runs>>
     ELSE _next(value)

\* Subscriber.complete(), as the source calls it
complete ==
  /\ ~sourceDone
  /\ sourceDone' = TRUE
  /\ last' = [NoCall EXCEPT !.op = "complete"]
  /\ IF isStopped
     THEN UNCHANGED <<isStopped, closed, destination, out, terminal>>
     ELSE /\ isStopped' = TRUE
          /\ closed' = TRUE
          /\ destination' = [isStopped |-> TRUE]
          /\ out' = IF destination.isStopped THEN out ELSE Append(out, C)
          /\ terminal' = IF terminal = "none" THEN "complete" ELSE terminal
  /\ UNCHANGED <<heap, compare, keySelector, key, hasKey, accepted, judged, calls,
                 dirty, shown, runs, nDeliver, nMutate>>

\* Subscriber.error(err), as the source calls it
error ==
  /\ ~sourceDone
  /\ sourceDone' = TRUE
  /\ last' = [NoCall EXCEPT !.op = "error"]
  /\ IF isStopped
     THEN UNCHANGED <<isStopped, closed, destination, out, terminal>>
     ELSE /\ isStopped' = TRUE
          /\ closed' = TRUE
          /\ destination' = [isStopped |-> TRUE]
          /\ out' = IF destination.isStopped THEN out ELSE Append(out, E)
          /\ terminal' = IF terminal = "none" THEN "error" ELSE terminal
  /\ UNCHANGED <<heap, compare, keySelector, key, hasKey, accepted, judged, calls,
                 dirty, shown, runs, nDeliver, nMutate>>

\* an unsubscription of the consumer that does not reach this subscriber
unsubscribe_NotChained ==
  /\ ~destination.isStopped
  /\ destination' = [isStopped |-> TRUE]
  /\ last' = [NoCall EXCEPT !.op = "unsubscribe"]
  /\ terminal' = IF terminal = "none" THEN "unsubscribed" ELSE terminal
  /\ UNCHANGED <<heap, compare, keySelector, key, hasKey, isStopped, closed, out,
                 sourceDone, accepted, judged, calls, dirty, shown, runs, nDeliver,
                 nMutate>>

\* The consumer unsubscribes: the downstream subscriber and, through the
\* subscription DistinctUntilChangedOperator.call returned, this one.
unsubscribe ==
  /\ ~closed
  /\ closed' = TRUE
  /\ isStopped' = TRUE
  /\ destination' = [isStopped |-> TRUE]
  /\ last' = [NoCall EXCEPT !.op = "unsubscribe"]
  /\ terminal' = IF terminal = "none" THEN "unsubscribed" ELSE terminal
  /\ UNCHANGED <<heap, compare, keySelector, key, hasKey, out, sourceDone, accepted,
                 judged, calls, dirty, shown, runs, nDeliver, nMutate>>

\* Code outside the filter assigns a property of an object it holds.
mutate(a, k, v) ==
  /\ nMutate < MaxMutate
  /\ heap[a].f[k] # v
  /\ heap' = [heap EXCEPT ![a].f[k] = v]
  /\ dirty' = TRUE
  /\ nMutate' = nMutate + 1
  /\ last' = [NoCall EXCEPT !.op = "mutate"]
  /\ UNCHANGED <<compare, keySelector, key, hasKey, isStopped, closed, destination,
                 out, sourceDone, accepted, judged, calls, terminal, shown, runs,
                 nDeliver>>

\* ------------------------------------------------- a consumer that re-enters

\* _next as a function of the subscriber, for a consumer whose next handler
\* delivers a value to the subscriber while it runs: the nested
\* Subscriber.next runs inside destination.next, before _next goes on.

\* no value: the consumer's handler delivers nothing
NoValue == [t |-> "nothing", v |-> 0]

\* the subscriber: its fields, the heap, the consumer's notifications, and a
\* log of the _next calls made and of the clones retained
This ==
  [heap |-> heap, key |-> key, hasKey |-> hasKey, isStopped |-> isStopped,
   closed |-> closed, destination |-> destination, out |-> out,
   log |-> <<>>, made |-> <<>>]

\* this.destination.error(err), on the subscriber s
errorOn(s) ==
  IF s.destination.isStopped THEN s
  ELSE [s EXCEPT !.out = Append(@, E), !.destination = [isStopped |-> TRUE],
                 !.isStopped = TRUE, !.closed = TRUE]

\* a subscriber that hands the value on before it retains the key
acceptOrder_NextFirst == <<"destination.next", "this.key">>

\* the statements of `if (!result) { this.key = copy(key);
\* this.destination.next(value); }` in their order
acceptOrder == <<"this.key", "destination.next">>

\* this.destination.next(value) on the subscriber s, for a consumer whose
\* handler delivers nothing
sendOn(s, value) ==
  IF s.destination.isStopped THEN s ELSE [s EXCEPT !.out = Append(@, N(value))]

RECURSIVE nextOn(_, _, _)

\* this.destination.next(value) on the subscriber s: the consumer gets the
\* value, and its handler delivers the value inside, if any, to the subscriber
\* (a nested call, during which the handler delivers nothing more)
forward(s, value, inside) ==
  IF s.destination.isStopped \/ inside = NoValue THEN sendOn(s, value)
  ELSE CHOOSE r \in {nextOn(t, inside, NoValue) : t \in {sendOn(s, value)}} : TRUE

\* one statement of the accepting branch on the subscriber s
acceptStep(s, statement, k, value, inside) ==
  IF statement = "this.key"
  THEN LET r == retain(s.heap, k)
       IN [s EXCEPT !.key = r.value, !.heap = r.heap, !.made = Append(@, r.value)]
  ELSE forward(s, value, inside)

\* _next(value) on the subscriber s, with a consumer whose handler, given
\* value, delivers the value inside
_nextOn(s, value, inside) ==
  LET ks == applyKeySelector(keySelector, value)
      compared == mustCompare(s.hasKey) /\ ~ks.threw
      c == IF compared THEN callCompare(compare, s.heap, s.key, ks.key)
           ELSE [threw |-> FALSE, result |-> FALSE]
      accepts == ~ks.threw /\ ~c.threw /\ isDistinct(c.result)
      entry == [value |-> value,
                content |-> Snapshot(s.heap, value),
                ks |-> IF keySelector = "none" THEN "none"
                       ELSE IF ks.threw THEN "threw" ELSE "ok",
                extracted |-> ks.key,
                keyContent |-> Snapshot(s.heap, ks.key),
                hadKey |-> s.hasKey,
                compared |-> compared,
                x |-> IF compared THEN s.key ELSE Undefined,
                xSnap |-> IF compared THEN Snapshot(s.heap, s.key) ELSE NoSnapshot,
                cmp |-> IF ~compared THEN "none"
                        ELSE IF c.threw THEN "threw"
                        ELSE IF c.result THEN "true" ELSE "false",
                emitted |-> accepts]
      logged == [s EXCEPT !.log = Append(@, entry)]
      has == [logged EXCEPT !.hasKey = TRUE]
  IN IF ks.threw \/ c.threw THEN errorOn(logged)
     ELSE IF accepts
          THEN acceptStep(acceptStep(has, acceptOrder[1], ks.key, value, inside),
                          acceptOrder[2], ks.key, value, inside)
          ELSE has

\* Subscriber.next(value) on the subscriber s
nextOn(s, value, inside) == IF s.isStopped THEN s ELSE _nextOn(s, value, inside)

\* Subscriber.next(value), as the source calls it, with a consumer whose
\* handler, given value, delivers the value inside to the subscriber: the step
\* is the whole outer call, the nested one included.
reentrantNext(value, inside) ==
  \E s \in {nextOn(This, value, inside)} :
  LET e == s.log
      b(p) == IF p THEN 1 ELSE 0
  IN /\ ~isStopped
     /\ Len(e) = 2
     /\ heap' = s.heap
     /\ key' = s.key
     /\ hasKey' = s.hasKey
     /\ isStopped' = s.isStopped
     /\ closed' = s.closed
     /\ destination' = s.destination
     /\ out' = s.out
     /\ last' = [NoCall EXCEPT !.op = "reentrant", !.value = inside, !.during = value,
                               !.ks = e[2].ks, !.extracted = e[2].extracted,
                               !.cmp = e[2].cmp, !.x = e[2].x,
                               !.y = IF e[2].compared THEN e[2].extracted ELSE Undefined,
                               !.xSnap = e[2].xSnap, !.expected = e[1].keyContent,
                               !.emitted = e[2].emitted, !.copied = s.made[1]]
     /\ accepted' = IF e[2].emitted THEN e[2].keyContent ELSE e[1].keyContent
     /\ judged' = judged \o <<value>> \o (IF e[2].emitted THEN <<inside>> ELSE <<>>)
     /\ calls' = [next |-> calls.next + 2,
                  keySelector |-> calls.keySelector + 2 * b(keySelector # "none"),
                  compare |-> calls.compare + b(e[1].compared) + b(e[2].compared),
                  copy |-> calls.copy + Len(s.made)]
     /\ terminal' = IF terminal = "none" /\ "threw" \in {e[2].ks, e[2].cmp}
                    THEN "failure" ELSE terminal
     /\ dirty' = FALSE
     /\ shown' = e[2].content
     /\ runs' = runs + b(e[1].content # shown) + b(e[2].content # e[1].content)
     /\ nDeliver' = nDeliver + 2
     /\ UNCHANGED <<compare, keySelector, sourceDone, nMutate>>

Prims == {Prim(1), Prim(2)}
\* what the source of Spec may deliver: a primitive or one of its objects
Values == Prims \cup {Ref(a) : a \in Delivered}

\* new DistinctUntilChangedSubscriber(destination, compare, keySelector): the
\* subscriber's fields, and nothing delivered to it yet
Fields(cmp, sel) ==
  /\ compare = cmp
  /\ keySelector = sel
  /\ key = Undefined
  /\ hasKey = FALSE
  /\ isStopped = FALSE
  /\ closed = FALSE
  /\ destination = [isStopped |-> FALSE]
  /\ out = <<>>
  /\ sourceDone = FALSE
  /\ last = NoCall
  /\ accepted = NoSnapshot
  /\ judged = <<>>
  /\ calls = [next |-> 0, keySelector |-> 0, compare |-> 0, copy |-> 0]
  /\ terminal = "none"
  /\ dirty = FALSE
  /\ shown = NoSnapshot
  /\ runs = 0
  /\ nDeliver = 0
  /\ nMutate = 0

\* a new subscriber to a source that holds the upstream objects
Constructed(cmp, sel) ==
  /\ heap = [a \in Addr |-> IF a \in ExtAddr THEN UpstreamObjects[a] ELSE Free]
  /\ Fields(cmp, sel)

\* the subscribers of Spec: every comparator without a key-selector, and the
\* default comparator with the throwing key-selector
Init ==
  \/ \E cmp \in {"deepEqual", "strictEqual", "throwsOn", "alwaysTrue", "alwaysFalse"} :
       Constructed(cmp, "none")
  \/ Constructed("deepEqual", "throwsOn")

Deliver == \E v \in Values : nDeliver < MaxDeliver /\ next(v)

\* the property the mutations of Spec assign: the first one, of an object the
\* source delivers or of an array nested in it
Mutated == {Keys[1]}

\* the objects a source hands out: those it delivers and those nested in them
HandedOut(delivered) == Reach(UpstreamObjects, delivered, {})

Mutate == \E a \in HandedOut(Delivered), k \in Mutated, v \in Prims : mutate(a, k, v)

Next == Deliver \/ Mutate \/ complete \/ error \/ unsubscribe

Spec == Init /\ [][Next]_vars

\* A source of objects that share nested arrays, under the default comparator:
\* it delivers 1, whose two properties hold one array, and 5, whose two
\* properties hold two arrays, one of them the array of 1.
Sharing == {1, 5}

InitShared == Constructed("deepEqual", "none")

DeliverShared == \E a \in Sharing : nDeliver < MaxDeliver /\ next(Ref(a))

MutateShared ==
  \E a \in HandedOut(Sharing), k \in Mutated, v \in Prims : mutate(a, k, v)

NextShared == DeliverShared \/ MutateShared \/ complete \/ error \/ unsubscribe

SpecShared == InitShared /\ [][NextShared]_vars

\* The tests' source of numbers: hot('--a--b--c--d--e--f--|', {a: 1, ..., f: 6}),
\* under the comparators and key-selectors the tests give it.
InitNum ==
  \E cmp \in {"deepEqual", "alwaysTrue", "alwaysFalse", "yEven", "yOdd"},
     sel \in {"none", "mod2"} : Constructed(cmp, sel)

DeliverNum == nDeliver < SeqLen /\ next(Prim(nDeliver + 1))

NextNum == DeliverNum \/ complete \/ error \/ unsubscribe

SpecNum == InitNum /\ [][NextNum]_vars

\* A consumer that re-enters: its handler may deliver a value to the
\* subscriber while it is given one (a subject fed from its own subscriber).
InitReentrant ==
  \E cmp \in {"deepEqual", "strictEqual", "throwsOn"} : Constructed(cmp, "none")

DeliverInside ==
  \E value \in Values, inside \in Values :
    nDeliver + 2 <= MaxDeliver /\ reentrantNext(value, inside)

NextReentrant == Deliver \/ DeliverInside \/ complete \/ error \/ unsubscribe

SpecReentrant == InitReentrant /\ [][NextReentrant]_vars

\* ------------------------------------------- the clone engine, by itself

\* what copy clones, and what it hands back as it is
Cloned == {"Object", "Thenable", "Array", "Map", "Set"}
Opaque == {"Function", "Promise", "Error", "WeakMap", "WeakSet"}

\* the caller's objects: two of them, each of any kind, the properties of a
\* cloned kind holding nothing, a primitive, the object itself or the other
\* one (so: shared references, cycles through objects, arrays, maps and sets,
\* maps with an object as key)
Inputs == {1, 2}
Slots == {Undefined, Prim(1)} \cup {Ref(a) : a \in Inputs}
InputCells ==
  {Cell(kind, p0, p1) : kind \in Cloned, p0 \in Slots, p1 \in Slots}
    \cup {Cell(kind, Undefined, Undefined) : kind \in Opaque}

\* a subscriber whose comparator always returns false, so that every value it
\* is given is cloned, and a caller of copy, over the caller's objects
InitCopy ==
  /\ \E c1 \in InputCells, c2 \in InputCells :
       heap = [a \in Addr |-> IF a = 1 THEN c1 ELSE IF a = 2 THEN c2 ELSE Free]
  /\ Fields("alwaysFalse", "none")

\* copy(object), called once
callCopy(object) ==
  /\ calls.copy = 0
  /\ LET r == copy(heap, object)
     IN /\ heap' = r.heap
        /\ last' = [NoCall EXCEPT !.op = "copy", !.value = object, !.copied = r.value]
  /\ calls' = [calls EXCEPT !.copy = @ + 1]
  /\ UNCHANGED <<compare, keySelector, key, hasKey, isStopped, closed, destination,
                 out, sourceDone, accepted, judged, terminal, dirty, shown, runs,
                 nDeliver, nMutate>>

CopyInput == \E object \in Slots : callCopy(object)

\* the source delivers one of the caller's objects as the first value
DeliverInput == \E a \in Inputs : calls.copy = 0 /\ nDeliver = 0 /\ next(Ref(a))

\* after the copy, code that holds an object assigns to a property of it
AssignAfterCopy ==
  \E a \in {b \in Addr : heap[b] # Free}, k \in Mutated :
    last.op = "copy" /\ mutate(a, k, Prim(2))

NextCopy == CopyInput \/ DeliverInput \/ AssignAfterCopy

SpecCopy == InitCopy /\ [][NextCopy]_vars

\* ------------------------------------------------------------- the claims

\* the values among the notifications of a sequence
ValuesOf(seq) == SelectSeq(seq, LAMBDA m : m.n = "next")
AsNotifications(values) == [i \in 1..Len(values) |-> N(values[i])]
Terminated == terminal \in {"failure", "complete", "error"}

\* C1: whenever the subscriber holds a retained key, no object reachable from
\* the retained key is an object the upstream holds, and the first argument of
\* the comparator is never an object of the upstream.
C1_RetainedKeyNotAliased ==
  hasKey =>
    /\ Reachable(heap, key) \cap ExtAddr = {}
    /\ (last.cmp # "none" => Reachable(heap, last.x) \cap ExtAddr = {})

\* C2: every comparator call receives as first argument a value whose content
\* is the content the last accepted key had when it was accepted.
C2_ComparatorSeesAcceptedContent ==
  (last.op = "next" /\ last.cmp # "none") => last.xSnap = last.expected

\* C3: after the key-selector or the comparator raised, the consumer has
\* received exactly the values judged distinct before, then the error, and
\* nothing else, whatever arrives later.
C3_FailureEndsTheStream ==
  terminal = "failure" => out = Append(AsNotifications(judged), E)

C3_Witness ==
  /\ terminal = "failure"
  /\ Len(judged) >= 1
  /\ last.op = "ignored"

\* C4: once the filter is terminated (by completion, error or a failure of the
\* key-selector or the comparator), a step neither calls _next, the key-selector,
\* the comparator or copy, nor changes the retained key or what downstream saw.
C4_TerminatedIsInert ==
  [][Terminated => /\ calls' = calls
                   /\ out' = out
                   /\ key' = key
                   /\ hasKey' = hasKey]_vars

C4_Witness ==
  /\ terminal = "failure"
  /\ last.op = "ignored"
  /\ last.value # ThrowOn

\* C5: after the consumer unsubscribed, this subscriber is unsubscribed too
\* (its subscription to the source released), the consumer has received no
\* terminal signal, and no step adds a notification, whatever the source emits.
C5_UnsubscribeStopsForwarding ==
  /\ [](terminal = "unsubscribed" => closed /\ isStopped /\ ValuesOf(out) = out)
  /\ [][terminal = "unsubscribed" => out' = out]_vars

C5_Witness ==
  /\ terminal = "unsubscribed"
  /\ last.op = "ignored"
  /\ Len(judged) >= 1
  /\ last.value # judged[Len(judged)]

\* C6: with a baseline, a value the comparator calls equal is dropped and
\* leaves the state as it was (nothing forwarded, the retained key the clone
\* made for the last forwarded value); a value it calls different is forwarded
\* and the retained key becomes a new object with the content of its key.
C6_DropOrAccept ==
  [][/\ (hasKey /\ last'.op = "next" /\ last'.cmp = "true") =>
          /\ out' = out
          /\ key' = key
          /\ hasKey'
          /\ heap' = heap
          /\ accepted' = accepted
          /\ judged' = judged
     /\ (hasKey /\ last'.op = "next" /\ last'.cmp = "false") =>
          /\ out' = Append(out, N(last'.value))
          /\ hasKey'
          /\ Snapshot(heap', key') = Snapshot(heap, last'.extracted)
          /\ key'.t = "ref" => heap[key'.v] = Free
    ]_vars

C6_Witness ==
  /\ last.op = "next"
  /\ last.cmp = "true"
  /\ last.value.t = "ref"
  /\ Len(judged) = 2
  /\ last.value # judged[2]

\* C7: the first value whose key is extracted is forwarded without a comparator
\* call and the retained key becomes a new object with the content of its key;
\* so a comparator that always returns true lets exactly the first value
\* through, and one that always returns false lets every value through.
C7_FirstValueForwarded ==
  /\ [][(~hasKey /\ last'.op = "next" /\ last'.ks # "threw") =>
          /\ last'.cmp = "none"
          /\ calls'.compare = calls.compare
          /\ out' = Append(out, N(last'.value))
          /\ hasKey'
          /\ Snapshot(heap', key') = Snapshot(heap, last'.extracted)
          /\ key'.t = "ref" => heap[key'.v] = Free
       ]_vars
  /\ [](compare = "alwaysTrue" =>
          ValuesOf(out) = IF calls.next = 0 THEN <<>> ELSE <<N(judged[1])>>)
  /\ [](compare = "alwaysFalse" =>
          Len(ValuesOf(out)) = calls.next /\ ValuesOf(out) = AsNotifications(judged))

C7_Witness ==
  /\ compare = "alwaysTrue"
  /\ calls.next = MaxDeliver
  /\ calls.compare = MaxDeliver - 1
  /\ Len(out) = 1
  /\ last.value # judged[1]

\* C8: with the default comparator and no key-selector, a value whose content
\* on delivery is the content the last forwarded value had on its delivery
\* (the same object or another one) is not forwarded; so the consumer
\* receives one value per run of values of equal content, a single value when
\* all are equal, and then the source's terminal signal.
C8_EqualRunEmitsFirst ==
  /\ [][(/\ compare = "deepEqual" /\ keySelector = "none"
         /\ hasKey
         /\ last'.op = "next"
         /\ Snapshot(heap, last'.value) = accepted) =>
          (out' = out /\ ~last'.emitted)]_vars
  /\ [](compare = "deepEqual" /\ keySelector = "none" =>
          /\ Len(ValuesOf(out)) = runs
          /\ runs = 1 => ValuesOf(out) = <<N(judged[1])>>
          /\ terminal = "complete" => out = Append(AsNotifications(judged), C)
          /\ terminal = "error" => out = Append(AsNotifications(judged), E))

\* The run property of the default comparator as long as none of the
\* upstream's objects has been assigned to since the last forwarded value.
EqualRunEmitsFirst_Unmutated ==
  /\ [][(/\ compare = "deepEqual" /\ keySelector = "none"
         /\ hasKey /\ ~dirty
         /\ last'.op = "next"
         /\ Snapshot(heap, last'.value) = accepted) =>
          (out' = out /\ ~last'.emitted)]_vars
  /\ [](compare = "deepEqual" /\ keySelector = "none" /\ nMutate = 0 =>
          /\ Len(ValuesOf(out)) = runs
          /\ runs = 1 => ValuesOf(out) = <<N(judged[1])>>
          /\ terminal = "complete" => out = Append(AsNotifications(judged), C)
          /\ terminal = "error" => out = Append(AsNotifications(judged), E))

\* the odd numbers up to n, as notifications
Odds(n) == [i \in 1..((n + 1) \div 2) |-> N(Prim(2 * i - 1))]
\* 1 and the even numbers up to n, as notifications
OneAndEvens(n) ==
  IF n = 0 THEN <<>> ELSE <<N(Prim(1))>> \o [i \in 1..(n \div 2) |-> N(Prim(2 * i))]

\* C9: a comparator given by the caller decides alone, on (retained key, new
\* key) in that order, and true means dropped: with (x, y) => y % 2 === 0 the
\* source 1, 2, 3, ... gets exactly its odd numbers through, 1, 3, 5 of 1..6.
C9_ComparatorDecides ==
  /\ [](compare = "yEven" /\ keySelector = "none" =>
          /\ ValuesOf(out) = Odds(calls.next)
          /\ calls.next = 6 => ValuesOf(out) = <<N(Prim(1)), N(Prim(3)), N(Prim(5))>>)
  /\ [][(last'.op = "next" /\ last'.cmp # "none") =>
          /\ last'.x = key
          /\ last'.y = last'.extracted
          /\ last'.cmp = "true" => out' = out
          /\ last'.cmp = "false" => out' = Append(out, N(last'.value))]_vars

C9_Witness ==
  /\ compare = "yEven" /\ keySelector = "none"
  /\ calls.next = 6
  /\ calls.compare = 5
  /\ out = <<N(Prim(1)), N(Prim(3)), N(Prim(5)), C>>

\* C10: a key-selector is applied to every value _next handles; the comparator
\* and the retained key hold its results, and the value forwarded is the
\* value delivered: with x => x % 2 and (x, y) => y % 2 === 1 the source
\* 1, 2, 3, ... gets 1 and its even numbers through, 1, 2, 4, 6 of 1..6.
C10_KeySelectorProjects ==
  /\ [](keySelector = "mod2" =>
          /\ calls.keySelector = calls.next
          /\ hasKey => key \in {Prim(0), Prim(1)}
          /\ (last.op = "next" /\ last.cmp # "none") =>
               /\ last.x \in {Prim(0), Prim(1)}
               /\ last.y = Prim(last.value.v % 2)
          /\ ValuesOf(out) = AsNotifications(judged))
  /\ [](keySelector = "mod2" /\ compare = "yOdd" =>
          /\ ValuesOf(out) = OneAndEvens(calls.next)
          /\ calls.next = 6 =>
               ValuesOf(out) = <<N(Prim(1)), N(Prim(2)), N(Prim(4)), N(Prim(6))>>)

C10_Witness ==
  /\ keySelector = "mod2" /\ compare = "yOdd"
  /\ calls.next = 6
  /\ key = Prim(0)
  /\ out = <<N(Prim(1)), N(Prim(2)), N(Prim(4)), N(Prim(6)), C>>

\* the terminal notifications among the notifications of a sequence
SignalsOf(seq) == SelectSeq(seq, LAMBDA m : m.n # "next")

\* C11: once the source completed or errored, or the key-selector or the
\* comparator raised, the consumer has received exactly one terminal signal
\* (the completion for a completion, an error otherwise), it is the last
\* notification, the notifications before it are as many values as were judged
\* distinct, and no later step adds a notification.
C11_OneTerminalSignal ==
  /\ [](Terminated =>
          /\ Len(SignalsOf(out)) = 1
          /\ out[Len(out)] = (IF terminal = "complete" THEN C ELSE E)
          /\ Len(ValuesOf(out)) = Len(judged)
          /\ Len(out) = Len(judged) + 1)
  /\ [][Terminated => out' = out]_vars

C11_Witness ==
  /\ terminal = "error"
  /\ Len(judged) = 1
  /\ calls.next = 2
  /\ last.op = "ignored"
  /\ out = <<N(judged[1]), E>>

\* C12: with the default comparator and no key-selector, a value whose content
\* on delivery differs from the content the last forwarded value had on its
\* delivery is forwarded at once; so when every value differs from the one
\* before, the consumer receives every value, in order, and then the source's
\* terminal signal.
C12_AllDistinctPassThrough ==
  /\ [][(/\ compare = "deepEqual" /\ keySelector = "none"
         /\ last'.op = "next"
         /\ Snapshot(heap, last'.value) # accepted) =>
          (last'.emitted /\ out' = Append(out, N(last'.value)))]_vars
  /\ [](compare = "deepEqual" /\ keySelector = "none" /\ runs = calls.next =>
          /\ Len(ValuesOf(out)) = calls.next
          /\ terminal = "complete" => out = Append(AsNotifications(judged), C)
          /\ terminal = "error" => out = Append(AsNotifications(judged), E))

\* The pass-through of distinct values as long as none of the upstream's
\* objects has been assigned to since the last forwarded value.
AllDistinctPassThrough_Unmutated ==
  /\ [][(/\ compare = "deepEqual" /\ keySelector = "none"
         /\ ~dirty
         /\ last'.op = "next"
         /\ Snapshot(heap, last'.value) # accepted) =>
          (last'.emitted /\ out' = Append(out, N(last'.value)))]_vars
  /\ [](compare = "deepEqual" /\ keySelector = "none" /\ nMutate = 0
          /\ runs = calls.next =>
          /\ Len(ValuesOf(out)) = calls.next
          /\ terminal = "complete" => out = Append(AsNotifications(judged), C)
          /\ terminal = "error" => out = Append(AsNotifications(judged), E))

\* C13: on the source 1, 2, 3, ... the values the consumer has received are
\* values already delivered, in increasing order (a subsequence of the
\* source's sequence), and a step changes them only by appending the value
\* that very step delivers: nothing is held back, reordered or sent in batches.
C13_OrderPreservingSubsequence ==
  /\ [](LET vs == ValuesOf(out)
        IN /\ \A i \in 1..Len(vs) : vs[i].v.t = "prim" /\ vs[i].v.v \in 1..nDeliver
           /\ \A i, j \in 1..Len(vs) : i < j => vs[i].v.v < vs[j].v.v
           /\ vs = AsNotifications(judged))
  /\ [][ValuesOf(out') # ValuesOf(out) =>
          /\ last'.op = "next"
          /\ last'.value = Prim(nDeliver')
          /\ last'.emitted
          /\ ValuesOf(out') = Append(ValuesOf(out), N(last'.value))]_vars

C13_Witness ==
  /\ compare = "yEven" /\ keySelector = "none"
  /\ ValuesOf(out) = <<N(Prim(1)), N(Prim(3))>>
  /\ last.op = "next"
  /\ last.value = Prim(4)
  /\ ~last.emitted

\* C14: as long as the source has sent neither completion nor error and
\* neither the key-selector nor the comparator has raised, the consumer has
\* received no completion and no error, whatever was forwarded or dropped; a
\* terminal signal reaches the consumer only in a step in which the source
\* completes or errors or one of the two functions raises.
C14_NoTerminalOfItsOwn ==
  /\ []((~sourceDone /\ terminal # "failure") => SignalsOf(out) = <<>>)
  /\ [][SignalsOf(out') # SignalsOf(out) =>
          \/ last'.op \in {"complete", "error"}
          \/ (last'.op = "next" /\ (last'.ks = "threw" \/ last'.cmp = "threw"))]_vars

C14_Witness ==
  /\ ~sourceDone
  /\ terminal = "none"
  /\ compare = "deepEqual"
  /\ calls.next = MaxDeliver
  /\ Len(out) = 2
  /\ ~last.emitted

\* the kinds of object the clone may share with its source
PassedThrough == {"Function", "Promise", "Thenable", "Error", "WeakMap", "WeakSet"}

\* the objects a value reaches that a clone has to have for itself
Composites(h, v) == {a \in Reachable(h, v) : h[a].kind \notin PassedThrough}

\* C15: after copy(object), no object the clone reaches is an object the source
\* reaches, objects that are passed through apart; and an assignment to an
\* object of the one leaves every object of the other as it was.
C15_CloneSharesNothing ==
  /\ [](last.op = "copy" =>
          Composites(heap, last.copied) \cap Composites(heap, last.value) = {})
  /\ [][(last.op = "copy" /\ last'.op = "mutate") =>
          LET changed == {a \in Addr : heap'[a] # heap[a]}
              ofClone == Composites(heap, last.copied)
              ofSource == Composites(heap, last.value)
          IN /\ changed \subseteq ofClone => \A a \in ofSource : heap'[a] = heap[a]
             /\ changed \subseteq ofSource => \A a \in ofClone : heap'[a] = heap[a]]_vars

\* the objects an object references
Referenced(h, a) == {h[a].f[k].v : k \in {j \in KeySet : h[a].f[j].t = "ref"}}
\* an object that reaches itself
OnCycle(h, a) == a \in Reach(h, Referenced(h, a), {})
\* the heap without the caller's objects: what copy created
Created(h) == [a \in Addr |-> IF a \in Inputs THEN Free ELSE h[a]]

\* C16: after copy(object) of an object that is on a cycle, the clone is a
\* new object that is on a cycle of new objects (the reference back is to the
\* clone made for the object, not to the object), and no object was cloned twice.
C16_CycleReproduced ==
  (/\ last.op = "copy"
   /\ last.value.t = "ref"
   /\ heap[last.value.v].kind \in Cloned
   /\ OnCycle(heap, last.value.v)) =>
      /\ last.copied.t = "ref"
      /\ last.copied.v \notin Inputs
      /\ OnCycle(Created(heap), last.copied.v)
      /\ Cardinality({a \in Addr \ Inputs : heap[a] # Free})
           <= Cardinality(Composites(heap, last.value))

\* the references a heap holds to a computation that was cut off
CutOff(h) == {a \in Addr : \E k \in KeySet : h[a].f[k] = Exhausted}

\* C17: copy(object) ends for every one of the caller's values, cyclic ones
\* included: it returns a value, having created at most one object for each
\* object the source reaches, and it never runs until the runtime has no room
\* left; and a subscriber's _next on a first value that is cyclic ends too,
\* with the value forwarded and a clone retained.
C17_CopyTerminates ==
  /\ (last.op = "copy" =>
        /\ last.copied # Exhausted
        /\ CutOff(heap) = {}
        /\ Cardinality({a \in Addr \ Inputs : heap[a] # Free})
             <= Cardinality(Reachable(heap, last.value)))
  /\ (last.op = "next" =>
        /\ key # Exhausted
        /\ CutOff(heap) = {}
        /\ hasKey
        /\ out = <<N(last.value)>>)

C17_Witness ==
  /\ last.op = "copy"
  /\ last.value = Ref(1)
  /\ heap[1].kind = "Array"
  /\ heap[1].f["k0"] = Ref(2)
  /\ heap[2].kind = "Map"
  /\ heap[2].f["k1"] = Ref(1)
  /\ last.copied.t = "ref"
  /\ last.copied.v \notin Inputs

\* the filter's side of C17: a cyclic first value is handled to the end
C17_WitnessNext ==
  /\ last.op = "next"
  /\ heap[1].kind = "Set"
  /\ heap[1].f["k0"] = Ref(1)
  /\ last.value = Ref(1)
  /\ key.t = "ref"
  /\ key # Ref(1)

\* C18: copy returns a function, a promise-like object (a promise, or any
\* object with a method then), an error, a WeakMap and a WeakSet as the very
\* reference it was given, and a primitive or undefined unchanged; and where
\* the object it clones holds such a value, the clone holds the same one.
C18_PassThrough ==
  last.op = "copy" =>
    /\ last.value.t # "ref" => last.copied = last.value
    /\ (last.value.t = "ref" /\ heap[last.value.v].kind \in PassedThrough) =>
         last.copied = last.value
    /\ (/\ last.value.t = "ref"
        /\ heap[last.value.v].kind \in {"Object", "Array", "Set"}
        /\ last.copied.t = "ref") =>
         \A k \in KeySet :
           LET p == heap[last.value.v].f[k]
           IN (p.t # "ref" \/ heap[p.v].kind \in PassedThrough) =>
                heap[last.copied.v].f[k] = p

\* C19: the subscriber holds no retained key before the first value is
\* accepted, and none after the subscription ended, by the source's completion
\* or error, by a failure of the key-selector or comparator, or by the
\* consumer's unsubscription.
C19_KeyReleasedOnTermination ==
  /\ calls.copy = 0 => (key = Undefined /\ ~hasKey)
  /\ terminal # "none" => key = Undefined

\* C20: a _next in which the key-selector or the comparator raises leaves the
\* retained key, the has-key flag and the heap as they were and does not call
\* copy; when it is the key-selector that raises, the comparator is not
\* called. The key-selector and comparator of the tests raise on their value.
C20_FailureLeavesState ==
  [][/\ (last'.op = "next" /\ keySelector = "throwsOn" /\ last'.value = ThrowOn) =>
          last'.ks = "threw"
     /\ (last'.op = "next" /\ compare = "throwsOn" /\ hasKey /\ last'.value = ThrowOn) =>
          last'.cmp = "threw"
     /\ (last'.op = "next" /\ (last'.ks = "threw" \/ last'.cmp = "threw")) =>
          /\ key' = key
          /\ hasKey' = hasKey
          /\ heap' = heap
          /\ calls'.copy = calls.copy
          /\ ~last'.emitted
          /\ ValuesOf(out') = ValuesOf(out)
     /\ (last'.op = "next" /\ last'.ks = "threw") =>
          /\ last'.cmp = "none"
          /\ calls'.compare = calls.compare
    ]_vars

C20_Witness ==
  /\ compare = "throwsOn"
  /\ last.op = "next"
  /\ last.cmp = "threw"
  /\ last.value = ThrowOn
  /\ judged = <<Prim(1)>>
  /\ hasKey
  /\ key = Prim(1)
  /\ calls.copy = 1

\* the key-selector's side of C20: it raises on the first value
C20_WitnessKeySelector ==
  /\ keySelector = "throwsOn"
  /\ last.op = "next"
  /\ last.ks = "threw"
  /\ calls.next = 1
  /\ ~hasKey
  /\ calls.compare = 0

\* _next as a function of the subscriber, for a consumer that delivers
\* nothing, is _next: every step of _next leaves the subscriber, the heap and
\* the consumer's notifications as the function gives them.
NextOnAgrees ==
  [][last'.op = "next" =>
       \A s \in {_nextOn(This, last'.value, NoValue)} :
          /\ heap' = s.heap
          /\ key' = s.key
          /\ hasKey' = s.hasKey
          /\ isStopped' = s.isStopped
          /\ closed' = s.closed
          /\ destination' = s.destination
          /\ out' = s.out
          /\ Len(s.log) = 1
          /\ last'.cmp = s.log[1].cmp
          /\ last'.ks = s.log[1].ks
          /\ last'.x = s.log[1].x
          /\ last'.emitted = s.log[1].emitted]_vars

\* C21: when the consumer's handler, given a value the subscriber forwards,
\* delivers another value to the subscriber, the comparator is called for the
\* nested value (the has-key flag is set) with the clone retained for the
\* value being forwarded as first argument, not with the key retained before;
\* the consumer gets the forwarded value first and the nested one after it if
\* the comparator calls it different.
C21_KeyBeforeForward ==
  [][last'.op = "reentrant" =>
       /\ last'.cmp # "none"
       /\ last'.x = last'.copied
       /\ last'.x # key
       /\ last'.xSnap = Snapshot(heap, last'.during)
       /\ last'.cmp = "true" => out' = Append(out, N(last'.during))
       /\ last'.cmp = "false" => out' = out \o <<N(last'.during), N(last'.value)>>
    ]_vars

C21_Witness ==
  /\ last.op = "reentrant"
  /\ compare = "deepEqual"
  /\ last.during = Ref(1)
  /\ last.value = Ref(2)
  /\ last.cmp = "true"
  /\ calls.next = 2
  /\ out = <<N(Ref(1))>>


\* C22: every call of copy on an object of a cloned kind starts from an empty
\* cache, so each acceptance of an object key retains a newly created object:
\* not the key itself, not an object of the upstream, not the clone retained
\* before, and not any object that existed before the call, also when the same
\* object was accepted earlier.
C22_FreshCachePerCall ==
  [][(last'.op = "next" /\ calls'.copy = calls.copy + 1 /\ last'.extracted.t = "ref") =>
       /\ last'.copied.t = "ref"
       /\ last'.copied # last'.extracted
       /\ last'.copied.v \notin ExtAddr
       /\ heap[last'.copied.v] = Free
       /\ last'.copied # key
       /\ key' = last'.copied
    ]_vars

\* the same object accepted twice with another value in between
C22_Witness ==
  /\ judged = <<Ref(1), Prim(1), Ref(1)>>
  /\ calls.copy = 3
  /\ last.op = "next"
  /\ last.extracted = Ref(1)
  /\ key = last.copied
  /\ key.t = "ref"
  /\ key.v \notin ExtAddr

\* the same object accepted twice in a row, the earlier clone still retained
\* while the later one is made
C22_WitnessInARow ==
  /\ judged = <<Ref(1), Ref(1)>>
  /\ calls.copy = 2
  /\ last.op = "next"
  /\ last.x # last.copied
  /\ key = last.copied
  /\ key.v \notin ExtAddr

====
